---- MODULE Spec2Model ----
(***************************************************************************)
(* A model of mic-record.py: a driver callback that enqueues audio frames, *)
(* a capture thread that owns the input stream, a segmentation /           *)
(* transcription thread that drains the queue and flushes utterances on a  *)
(* silence gap, and the main thread that reads console lines, handles      *)
(* SIGINT and shuts the session down.                                      *)
(*                                                                         *)
(* Units.  The clock `now` counts ticks of 1.5 s, so SILENCE_DURATION      *)
(* (1.5 s) is 1 tick.  Amplitudes are in units of 0.01, so                 *)
(* SILENCE_THRESHOLD (0.01) is 1.  A frame is represented by its capture   *)
(* sequence number, its peak absolute amplitude and the clock value at     *)
(* which the driver delivered it.                                          *)
(***************************************************************************)
EXTENDS Integers, Sequences, FiniteSets, TLC

\* ---------------------------------------------------------------- bounds
\* Number of frames the driver delivers in one session.
MaxFrames == 2
\* Number of clock ticks in one session.
MaxTime == 3

\* Length of the longest flushed buffer whose samples are chosen freely.
MaxSamples == 6
\* Number of blocks of the longest flushed buffer made of whole blocks.
MaxBlocks == 2

\* ------------------------------------------------------ program constants
SILENCE_THRESHOLD == 1
SILENCE_DURATION == 1
BUFFER_SIZE == 1024
INPUT_SAMPLE_RATE == 48000
WHISPER_SAMPLE_RATE == 16000

\* Sample values, in units of 1.0.
Samples == {-2, -1, 0, 1, 2}

\* Peak amplitudes a frame may have: below and above the threshold.
Peaks == {0, 2}

\* Console lines the user may enter.
Lines == {"", "exit", "EXIT", "x"}

\* Texts the recognition engine may return (sequences of characters).
Texts == {<<>>, <<" ">>, <<" ", "h">>}

VARIABLES
    now,                \* time.time(), in ticks
    stop_flag,          \* threading.Event stop_flag
    recording_flag,     \* threading.Event recording_flag
    stream,             \* global stream: "None", "open", "active", "closed"
    audio_queue,        \* queue.Queue audio_queue
    audio_buffer,       \* transcribe_audio's local audio_buffer
    last_speech_time,   \* transcribe_audio's local last_speech_time
    seg_pc,             \* position of the transcription thread
    cap_pc,             \* position of the audio input thread
    main_pc,            \* position of the main thread
    delivered,          \* history: the number of every frame the driver delivered,
                        \*   with the value of recording_flag it was delivered under
    enqueued,           \* history: the number of every frame put on audio_queue
    deq_at,             \* history: dequeue time of each frame of audio_buffer
    flushes,            \* history: per flush, the numbers of the frames flushed,
                        \*   their max volume and what was called and printed
    released_use,       \* history: operations invoked on a closed stream handle
    cleanups,           \* history: number of cleanup() invocations so far
    device_error,       \* history: the capture thread caught a stream failure
    empty_lines,        \* history: number of empty console lines read, modulo 2
    audio_data,         \* resampler: the flattened samples of a flushed buffer
    resampled_audio,    \* resampler: the samples handed to the engine, as
                        \*   numerators num over one common denominator den
    res_pc              \* resampler: "off", "flat", "resampled", "normalized",
                        \*   "failed"

vars == <<now, stop_flag, recording_flag, stream, audio_queue, audio_buffer,
          last_speech_time, seg_pc, cap_pc, main_pc, delivered, enqueued,
          deq_at, flushes, released_use, cleanups, device_error, empty_lines,
          audio_data, resampled_audio, res_pc>>

segVars == <<audio_queue, audio_buffer, last_speech_time, seg_pc, deq_at, flushes>>
resVars == <<audio_data, resampled_audio, res_pc>>
histVars == <<delivered, enqueued, empty_lines, resVars>>

\* ---------------------------------------------------------------- helpers

\* The daemon threads and the driver callback run until the process is gone.
Alive == main_pc # "terminated"

\* str.lower() on the console lines of the model.
Lower(line) == IF line = "EXIT" THEN "exit" ELSE line

\* str.strip() on a text: leading and trailing blanks removed.
RECURSIVE LStrip(_)
LStrip(t) == IF t # <<>> /\ Head(t) = " " THEN LStrip(Tail(t)) ELSE t
RECURSIVE RStrip(_)
RStrip(t) ==
    IF t # <<>> /\ t[Len(t)] = " " THEN RStrip(SubSeq(t, 1, Len(t) - 1)) ELSE t
Strip(t) == RStrip(LStrip(t))

\* np.max(np.abs(audio_data)) > SILENCE_THRESHOLD
IsLoud(peak) == peak > SILENCE_THRESHOLD

\* Mutant of ShouldFlush: the comparison is strict.
ShouldFlush_strict(t, last, buf) == t - last > SILENCE_DURATION /\ Len(buf) > 0

\* time.time() - last_speech_time >= SILENCE_DURATION and len(audio_buffer) > 0
ShouldFlush(t, last, buf) == t - last >= SILENCE_DURATION /\ Len(buf) > 0

\* max(abs(audio_data.max()), abs(audio_data.min())) of the concatenated buffer
RECURSIVE max_volume(_)
max_volume(buf) ==
    IF buf = <<>> THEN 0
    ELSE LET rest == max_volume(Tail(buf))
         IN IF Head(buf).peak > rest THEN Head(buf).peak ELSE rest

Range(f) == {f[i] : i \in DOMAIN f}

\* The capture sequence numbers of the frames of a buffer.
frame_ids(buf) == [i \in 1..Len(buf) |-> buf[i].id]

\* cleanup(): the value of the stream handle after `if stream is not None:
\* stream.close()`.
cleanup_stream(s) == IF s = "None" THEN "None" ELSE "closed"

\* cleanup() invokes close() on a handle that is already closed.
cleanup_uses_released(s) == s = "closed"

\* The whole of cleanup() as an update of the stream and its histories.
cleanup ==
    /\ stream' = cleanup_stream(stream)
    /\ released_use' =
          IF cleanup_uses_released(stream)
          THEN released_use \cup {<<"cleanup", cleanups + 1>>}
          ELSE released_use
    /\ cleanups' = cleanups + 1

\* ------------------------------------------------------------------- Init
SessionInit ==
    /\ now = 0
    /\ stop_flag = FALSE
    /\ recording_flag = FALSE
    /\ stream = "None"
    /\ audio_queue = <<>>
    /\ audio_buffer = <<>>
    /\ last_speech_time = 0
    /\ seg_pc = "idle"
    /\ cap_pc = "idle"
    /\ main_pc = "start"
    /\ delivered = <<>>
    /\ enqueued = <<>>
    /\ deq_at = <<>>
    /\ flushes = <<>>
    /\ released_use = {}
    /\ cleanups = 0
    /\ device_error = FALSE
    /\ empty_lines = 0

\* The state in which the session starts; no buffer is being resampled.
Init ==
    /\ SessionInit
    /\ audio_data = <<>>
    /\ resampled_audio = [num |-> <<>>, den |-> 1]
    /\ res_pc = "off"

\* ------------------------------------------------------------------ clock
Tick ==
    /\ Alive
    /\ now < MaxTime
    /\ now' = now + 1
    /\ UNCHANGED <<stop_flag, recording_flag, stream, segVars, cap_pc, main_pc,
                   histVars, released_use, cleanups, device_error>>

\* -------------------------------------------------------- driver callback
\* Mutant of audio_callback: the put sits inside the audio level test, so
\* only frames above the threshold are enqueued.
audio_callback_loud_only(peak) ==
    /\ Alive
    /\ stream = "active"
    /\ Len(delivered) < MaxFrames
    /\ LET frame == [id |-> Len(delivered) + 1, peak |-> peak, t |-> now]
       IN /\ delivered' = Append(delivered, [id |-> frame.id, rec |-> recording_flag])
          /\ IF recording_flag /\ IsLoud(peak)
             THEN /\ audio_queue' = Append(audio_queue, frame)
                  /\ enqueued' = Append(enqueued, frame.id)
             ELSE UNCHANGED <<audio_queue, enqueued>>
    /\ UNCHANGED <<now, stop_flag, recording_flag, stream, audio_buffer,
                   last_speech_time, seg_pc, cap_pc, main_pc, deq_at, flushes,
                   released_use, cleanups, device_error, empty_lines, resVars>>

\* audio_callback: the frame is put on the queue only under recording_flag.
audio_callback(peak) ==
    /\ Alive
    /\ stream = "active"
    /\ Len(delivered) < MaxFrames
    /\ LET frame == [id |-> Len(delivered) + 1, peak |-> peak, t |-> now]
       IN /\ delivered' = Append(delivered, [id |-> frame.id, rec |-> recording_flag])
          /\ IF recording_flag
             THEN /\ audio_queue' = Append(audio_queue, frame)
                  /\ enqueued' = Append(enqueued, frame.id)
             ELSE UNCHANGED <<audio_queue, enqueued>>
    /\ UNCHANGED <<now, stop_flag, recording_flag, stream, audio_buffer,
                   last_speech_time, seg_pc, cap_pc, main_pc, deq_at, flushes,
                   released_use, cleanups, device_error, empty_lines, resVars>>

Callback == \E peak \in Peaks : audio_callback(peak)

\* ------------------------------------------- transcription thread
\* transcribe_audio, lines 55-57: the locals are initialised when the thread
\* starts running.
transcribe_init ==
    /\ Alive
    /\ seg_pc = "init"
    /\ audio_buffer' = <<>>
    /\ deq_at' = <<>>
    /\ last_speech_time' = now
    /\ seg_pc' = "top"
    /\ UNCHANGED <<now, stop_flag, recording_flag, stream, audio_queue, cap_pc,
                   main_pc, histVars, flushes, released_use, cleanups,
                   device_error>>

\* Mutant of transcribe_loop_check: the loop hands what is left in the buffer
\* to the engine as it leaves.
transcribe_loop_check_final_flush ==
    /\ Alive
    /\ seg_pc = "top"
    /\ seg_pc' = IF stop_flag THEN "exited" ELSE "get"
    /\ flushes' = IF stop_flag /\ audio_buffer # <<>>
                  THEN Append(flushes,
                         [ids |-> frame_ids(audio_buffer),
                          volume |-> max_volume(audio_buffer),
                          log |-> <<"transcribe">>])
                  ELSE flushes
    /\ UNCHANGED <<now, stop_flag, recording_flag, stream, audio_queue,
                   audio_buffer, last_speech_time, cap_pc, main_pc, histVars,
                   deq_at, released_use, cleanups, device_error>>

\* Line 59: the loop condition.  The loop is left when stop_flag is set.
transcribe_loop_check ==
    /\ Alive
    /\ seg_pc = "top"
    /\ seg_pc' = IF stop_flag THEN "exited" ELSE "get"
    /\ UNCHANGED <<now, stop_flag, recording_flag, stream, audio_queue,
                   audio_buffer, last_speech_time, cap_pc, main_pc, histVars,
                   deq_at, flushes, released_use, cleanups, device_error>>

\* Lines 61, 105-106: audio_queue.get(timeout=0.1) raises queue.Empty and the
\* loop continues.
queue_timeout ==
    /\ Alive
    /\ seg_pc = "get"
    /\ audio_queue = <<>>
    /\ seg_pc' = "top"
    /\ UNCHANGED <<now, stop_flag, recording_flag, stream, audio_queue,
                   audio_buffer, last_speech_time, cap_pc, main_pc, histVars,
                   deq_at, flushes, released_use, cleanups, device_error>>

\* Mutant of buffer_append: the frame is inserted at the front.
buffer_append_front(buf, frame) == <<frame>> \o buf

\* Line 62: audio_buffer.append(audio_data)
buffer_append(buf, frame) == Append(buf, frame)

\* Mutant of speech_time_after: a loud frame does not restart the timer.
speech_time_after_stale(last, peak, t) == last

\* Lines 63-65: the silence timer after a frame of the given peak.
speech_time_after(last, peak, t) == IF IsLoud(peak) THEN t ELSE last

\* Lines 61-73 and 75-90 up to the call of model.transcribe: a frame is
\* taken from the queue and appended; when the silence timer has run out
\* the buffer is concatenated, resampled and handed to the engine, and the
\* thread blocks in the call.
dequeue_frame ==
    /\ Alive
    /\ seg_pc = "get"
    /\ audio_queue # <<>>
    /\ LET frame == Head(audio_queue)
           buf == buffer_append(audio_buffer, frame)
           deq == Append(deq_at, now)
           last == speech_time_after(last_speech_time, frame.peak, now)
       IN /\ audio_queue' = Tail(audio_queue)
          /\ audio_buffer' = buf
          /\ deq_at' = deq
          /\ last_speech_time' = last
          /\ IF ShouldFlush(now, last, buf)
             THEN /\ seg_pc' = "transcribing"
                  /\ flushes' = Append(flushes,
                        [ids |-> frame_ids(buf), volume |-> max_volume(buf),
                         log |-> <<"transcribe">>])
             ELSE /\ seg_pc' = "top"
                  /\ UNCHANGED flushes
    /\ UNCHANGED <<now, stop_flag, recording_flag, stream, cap_pc, main_pc,
                   histVars, released_use, cleanups, device_error>>

\* Lines 70-73 and 107-109: an exception raised while the buffer is being
\* concatenated or its volume printed is caught by the outer handler, which
\* leaves the loop.
processing_raises ==
    /\ Alive
    /\ seg_pc = "get"
    /\ audio_queue # <<>>
    /\ LET frame == Head(audio_queue)
           buf == buffer_append(audio_buffer, frame)
           last == speech_time_after(last_speech_time, frame.peak, now)
       IN /\ ShouldFlush(now, last, buf)
          /\ audio_queue' = Tail(audio_queue)
          /\ audio_buffer' = buf
          /\ deq_at' = Append(deq_at, now)
          /\ last_speech_time' = last
          /\ seg_pc' = "exited"
    /\ UNCHANGED <<now, stop_flag, recording_flag, stream, cap_pc, main_pc,
                   histVars, flushes, released_use, cleanups, device_error>>

\* Mutant of deliver: the text is tested without being stripped.
deliver_unstripped(text, clip) ==
    IF text # <<>>
    THEN <<"transcription", IF clip THEN "clipboard_copied" ELSE "clipboard_error">>
    ELSE <<"no_speech">>

\* Lines 91-96 and copy_to_clipboard: what is printed and copied for a text
\* the engine returned; clip tells whether pyperclip.copy succeeds.
deliver(text, clip) ==
    IF Strip(text) # <<>>
    THEN <<"transcription", IF clip THEN "clipboard_copied" ELSE "clipboard_error">>
    ELSE <<"no_speech">>

\* Lines 100-103: the buffer is cleared and the silence timer restarted.
end_flush(log) ==
    /\ flushes' = [flushes EXCEPT ![Len(flushes)].log = @ \o log]
    /\ audio_buffer' = <<>>
    /\ deq_at' = <<>>
    /\ last_speech_time' = now
    /\ seg_pc' = "top"

\* Lines 90-96, 100-103: model.transcribe returns.
transcribe_returns(text, clip) ==
    /\ Alive
    /\ seg_pc = "transcribing"
    /\ end_flush(deliver(text, clip))
    /\ UNCHANGED <<now, stop_flag, recording_flag, stream, audio_queue, cap_pc,
                   main_pc, histVars, released_use, cleanups, device_error>>

\* Mutant of transcribe_raises: the error reaches the outer handler, which
\* leaves the loop with the buffer as it was.
transcribe_raises_breaks ==
    /\ Alive
    /\ seg_pc = "transcribing"
    /\ flushes' = [flushes EXCEPT ![Len(flushes)].log = @ \o <<"transcription_error">>]
    /\ seg_pc' = "exited"
    /\ UNCHANGED <<now, stop_flag, recording_flag, stream, audio_queue,
                   audio_buffer, last_speech_time, deq_at, cap_pc, main_pc,
                   histVars, released_use, cleanups, device_error>>

\* Lines 97-98, 100-103: model.transcribe raises.
transcribe_raises ==
    /\ Alive
    /\ seg_pc = "transcribing"
    /\ end_flush(<<"transcription_error">>)
    /\ UNCHANGED <<now, stop_flag, recording_flag, stream, audio_queue, cap_pc,
                   main_pc, histVars, released_use, cleanups, device_error>>

TranscribeReturns == \E text \in Texts, clip \in BOOLEAN : transcribe_returns(text, clip)

\* ------------------------------------------------- audio input thread
\* Lines 115-122: sd.InputStream(...) returns a handle that is open but not
\* yet started.
open_stream ==
    /\ Alive
    /\ cap_pc = "open"
    /\ stream' = "open"
    /\ cap_pc' = "enter"
    /\ UNCHANGED <<now, stop_flag, recording_flag, segVars, main_pc, histVars,
                   released_use, cleanups, device_error>>

\* Lines 115-122, 127-129: sd.InputStream(...) raises; the global stream is
\* never assigned.
open_stream_fails ==
    /\ Alive
    /\ cap_pc = "open"
    /\ stop_flag' = TRUE
    /\ device_error' = TRUE
    /\ cap_pc' = "done"
    /\ UNCHANGED <<now, recording_flag, stream, segVars, main_pc, histVars,
                   released_use, cleanups>>

\* Line 123: `with stream:` starts the stream.  Starting a handle that
\* cleanup() has closed in the meantime is an operation on a released handle;
\* it fails and is caught at lines 127-129.
enter_stream ==
    /\ Alive
    /\ cap_pc = "enter"
    /\ IF stream = "open"
       THEN /\ stream' = "active"
            /\ cap_pc' = "running"
            /\ UNCHANGED <<stop_flag, released_use, device_error>>
       ELSE /\ released_use' = released_use \cup {<<"start", cleanups>>}
            /\ stop_flag' = TRUE
            /\ device_error' = TRUE
            /\ cap_pc' = "done"
            /\ UNCHANGED stream
    /\ UNCHANGED <<now, recording_flag, segVars, main_pc, histVars, cleanups>>

\* Lines 123, 127-129: starting the stream raises; the with block is not
\* entered, so the handle stays open until cleanup() closes it.
enter_stream_fails ==
    /\ Alive
    /\ cap_pc = "enter"
    /\ stream = "open"
    /\ stop_flag' = TRUE
    /\ device_error' = TRUE
    /\ cap_pc' = "done"
    /\ UNCHANGED <<now, recording_flag, stream, segVars, main_pc, histVars,
                   released_use, cleanups>>

\* Lines 125-126 and the exit of the with block: once stop_flag is set the
\* loop ends and the context manager closes the stream.
leave_stream ==
    /\ Alive
    /\ cap_pc = "running"
    /\ stop_flag
    /\ stream' = "closed"
    /\ released_use' =
          IF stream = "closed"
          THEN released_use \cup {<<"with", cleanups>>}
          ELSE released_use
    /\ cap_pc' = "done"
    /\ UNCHANGED <<now, stop_flag, recording_flag, segVars, main_pc, histVars,
                   cleanups, device_error>>

\* ---------------------------------------------------------- main thread
\* Lines 167-174: both daemon threads are started.
start_threads ==
    /\ main_pc = "start"
    /\ seg_pc' = "init"
    /\ cap_pc' = "open"
    /\ main_pc' = "check"
    /\ UNCHANGED <<now, stop_flag, recording_flag, stream, audio_queue,
                   audio_buffer, last_speech_time, histVars, deq_at, flushes,
                   released_use, cleanups, device_error>>

\* Line 177: the condition of the main loop.
main_loop_check ==
    /\ main_pc = "check"
    /\ main_pc' = IF stop_flag THEN "finally" ELSE "input"
    /\ UNCHANGED <<now, stop_flag, recording_flag, stream, segVars, cap_pc,
                   histVars, released_use, cleanups, device_error>>

\* Mutant of toggle_recording: the flag is set and never cleared.
toggle_recording_sets(rec) == TRUE

\* toggle_recording, lines 138-145: the value of recording_flag afterwards.
toggle_recording(rec) == ~rec

\* Mutant of user_input: pausing clears stop_flag instead of recording_flag.
user_input_clears_stop(line) ==
    /\ main_pc = "input"
    /\ IF line = ""
       THEN /\ IF recording_flag
               THEN stop_flag' = FALSE /\ UNCHANGED recording_flag
               ELSE recording_flag' = TRUE /\ UNCHANGED stop_flag
            /\ main_pc' = "check"
       ELSE IF Lower(line) = "exit"
       THEN /\ main_pc' = "finally"
            /\ UNCHANGED <<recording_flag, stop_flag>>
       ELSE /\ main_pc' = "check"
            /\ UNCHANGED <<recording_flag, stop_flag>>
    /\ empty_lines' = IF line = "" THEN (empty_lines + 1) % 2 ELSE empty_lines
    /\ UNCHANGED <<now, stream, segVars, cap_pc, delivered, enqueued, resVars,
                   released_use, cleanups, device_error>>

\* Mutant of user_input: pausing empties the frame queue.
user_input_pause_discards(line) ==
    /\ main_pc = "input"
    /\ IF line = ""
       THEN /\ recording_flag' = toggle_recording(recording_flag)
            /\ main_pc' = "check"
       ELSE IF Lower(line) = "exit"
       THEN /\ main_pc' = "finally"
            /\ UNCHANGED recording_flag
       ELSE /\ main_pc' = "check"
            /\ UNCHANGED recording_flag
    /\ empty_lines' = IF line = "" THEN (empty_lines + 1) % 2 ELSE empty_lines
    /\ audio_queue' = IF line = "" /\ recording_flag THEN <<>> ELSE audio_queue
    /\ UNCHANGED <<now, stop_flag, stream, audio_buffer, last_speech_time,
                   seg_pc, deq_at, flushes, cap_pc, delivered, enqueued,
                   resVars, released_use, cleanups, device_error>>

\* Lines 178-182: a console line is read and acted on.
user_input(line) ==
    /\ main_pc = "input"
    /\ IF line = ""
       THEN /\ recording_flag' = toggle_recording(recording_flag)
            /\ main_pc' = "check"
       ELSE IF Lower(line) = "exit"
       THEN /\ main_pc' = "finally"
            /\ UNCHANGED recording_flag
       ELSE /\ main_pc' = "check"
            /\ UNCHANGED recording_flag
    /\ empty_lines' = IF line = "" THEN (empty_lines + 1) % 2 ELSE empty_lines
    /\ UNCHANGED <<now, stop_flag, stream, segVars, cap_pc, delivered, enqueued,
                   resVars, released_use, cleanups, device_error>>

UserInput == \E line \in Lines : user_input(line)

\* Lines 178, 184-185: input() raises (end of input); the handler prints and
\* falls through to the finally block.
input_raises ==
    /\ main_pc = "input"
    /\ main_pc' = "finally"
    /\ UNCHANGED <<now, stop_flag, recording_flag, stream, segVars, cap_pc,
                   histVars, released_use, cleanups, device_error>>

\* signal_handler, lines 131-136: SIGINT is handled on the main thread inside
\* the main loop; sys.exit(0) unwinds into the finally block.
signal_handler ==
    /\ main_pc \in {"check", "input"}
    /\ stop_flag' = TRUE
    /\ cleanup
    /\ main_pc' = "finally"
    /\ UNCHANGED <<now, recording_flag, segVars, cap_pc, histVars, device_error>>

\* Lines 186-188: the finally block sets stop_flag and calls cleanup().
main_finally ==
    /\ main_pc = "finally"
    /\ stop_flag' = TRUE
    /\ cleanup
    /\ main_pc' = "join"
    /\ UNCHANGED <<now, recording_flag, segVars, cap_pc, histVars, device_error>>

\* Lines 189-194: both joins return, the threads having ended or the one
\* second timeouts having run out.
main_join ==
    /\ main_pc = "join"
    /\ main_pc' = "stopped"
    /\ UNCHANGED <<now, stop_flag, recording_flag, stream, segVars, cap_pc,
                   histVars, released_use, cleanups, device_error>>

\* Line 33: the atexit hook calls cleanup() as the interpreter begins to
\* exit.  The daemon threads are still running at that point.
atexit_cleanup ==
    /\ main_pc = "stopped"
    /\ cleanup
    /\ main_pc' = "exiting"
    /\ UNCHANGED <<now, stop_flag, recording_flag, segVars, cap_pc, histVars,
                   device_error>>

\* Lines 167, 171-173 (daemon=True): the process ends, and the daemon threads
\* with it, wherever they are.
process_exit ==
    /\ main_pc = "exiting"
    /\ main_pc' = "terminated"
    /\ UNCHANGED <<now, stop_flag, recording_flag, stream, segVars, cap_pc,
                   histVars, released_use, cleanups, device_error>>

\* ------------------------------------------------------- specifications
Next ==
    \/ Tick
    \/ Callback
    \/ transcribe_init
    \/ transcribe_loop_check
    \/ queue_timeout
    \/ dequeue_frame
    \/ processing_raises
    \/ TranscribeReturns
    \/ transcribe_raises
    \/ open_stream
    \/ open_stream_fails
    \/ enter_stream
    \/ enter_stream_fails
    \/ leave_stream
    \/ start_threads
    \/ main_loop_check
    \/ UserInput
    \/ input_raises
    \/ signal_handler
    \/ main_finally
    \/ main_join
    \/ atexit_cleanup
    \/ process_exit

Spec == Init /\ [][Next]_vars

\* Thread scheduling is fair: a thread that can take its next step takes it,
\* a blocking call of the engine returns, and time passes.  Nothing obliges
\* the user to enter a line or press Ctrl+C, the driver to deliver a frame,
\* or a call to fail.
FairSpec ==
    /\ Spec
    /\ WF_vars(Tick)
    /\ WF_vars(transcribe_init \/ transcribe_loop_check \/ queue_timeout
                 \/ dequeue_frame \/ TranscribeReturns)
    /\ WF_vars(open_stream \/ enter_stream \/ leave_stream)
    /\ WF_vars(start_threads \/ main_loop_check \/ main_finally \/ main_join
                 \/ atexit_cleanup \/ process_exit)

\* ------------------------------------------------------------ resampler
\* The resampling and normalisation of lines 76-88, on its own: a flattened
\* buffer goes in, the samples handed to the engine come out.  Arithmetic is
\* exact: a resampled sample is num[j] / den.

sessionVars == <<now, stop_flag, recording_flag, stream, audio_queue,
                 audio_buffer, last_speech_time, seg_pc, cap_pc, main_pc,
                 delivered, enqueued, deq_at, flushes, released_use, cleanups,
                 device_error, empty_lines>>

Abs(x) == IF x < 0 THEN -x ELSE x

\* ndarray.max() and ndarray.min() of a non-empty array.
SeqMax(q) == CHOOSE m \in Range(q) : \A x \in Range(q) : x <= m
SeqMin(q) == CHOOSE m \in Range(q) : \A x \in Range(q) : m <= x

\* Mutant of resampled_length: the quotient is rounded to the nearest integer.
resampled_length_rounded(audio_length) ==
    (2 * audio_length * WHISPER_SAMPLE_RATE + INPUT_SAMPLE_RATE)
        \div (2 * INPUT_SAMPLE_RATE)

\* Line 78: int(audio_length * WHISPER_SAMPLE_RATE / INPUT_SAMPLE_RATE)
resampled_length(audio_length) ==
    (audio_length * WHISPER_SAMPLE_RATE) \div INPUT_SAMPLE_RATE

\* Lines 79-83: np.interp(np.linspace(0, L, M), np.linspace(0, L, L), data).
\* Query j (from 0) lies at index j * (L - 1) / (M - 1) of the data.
interp(data, M) ==
    LET L == Len(data)
        den == IF M > 1 THEN M - 1 ELSE 1
    IN [num |-> [j \in 1..M |->
                   LET q == (j - 1) * (L - 1)
                       i == q \div den
                       r == q % den
                   IN IF r = 0 THEN data[i + 1] * den
                      ELSE data[i + 1] * (den - r) + data[i + 2] * r],
        den |-> den]

\* Mutant of normalized: only the maximum is tested and divided by.
normalized_max_only(a) ==
    IF SeqMax(a.num) > a.den
    THEN [num |-> a.num, den |-> Abs(SeqMax(a.num))]
    ELSE a

\* Lines 87-88: when a sample lies outside [-1, 1] every sample is divided by
\* the largest magnitude.
normalized(a) ==
    IF SeqMax(a.num) > a.den \/ SeqMin(a.num) < -a.den
    THEN [num |-> a.num,
          den |-> IF Abs(SeqMax(a.num)) > Abs(SeqMin(a.num))
                  THEN Abs(SeqMax(a.num)) ELSE Abs(SeqMin(a.num))]
    ELSE a

\* Flattened buffers: every sequence of up to MaxSamples samples, and buffers
\* of whole blocks that are constant or silent but for one sample.
FlatBuffers ==
    UNION {[1..n -> Samples] : n \in 1..MaxSamples}
    \cup {[i \in 1..(n * BUFFER_SIZE) |-> x] : n \in 1..MaxBlocks, x \in Samples}
    \cup {[i \in 1..(n * BUFFER_SIZE) |-> IF i = 2 THEN x ELSE 0] :
             n \in 1..MaxBlocks, x \in Samples}

\* Lines 70-71: a buffer has been concatenated and flattened.
ResampleInit ==
    /\ SessionInit
    /\ audio_data \in FlatBuffers
    /\ resampled_audio = [num |-> <<>>, den |-> 1]
    /\ res_pc = "flat"

\* Lines 77-86.
resample ==
    /\ res_pc = "flat"
    /\ resampled_audio' = interp(audio_data, resampled_length(Len(audio_data)))
    /\ res_pc' = "resampled"
    /\ UNCHANGED <<sessionVars, audio_data>>

\* Lines 87-88.
normalize ==
    /\ res_pc = "resampled"
    /\ resampled_audio.num # <<>>
    /\ resampled_audio' = normalized(resampled_audio)
    /\ res_pc' = "normalized"
    /\ UNCHANGED <<sessionVars, audio_data>>

\* Lines 87, 97-98: max() of an empty array raises, and the inner handler
\* reports a transcription error.
normalize_raises ==
    /\ res_pc = "resampled"
    /\ resampled_audio.num = <<>>
    /\ res_pc' = "failed"
    /\ UNCHANGED <<sessionVars, audio_data, resampled_audio>>

ResampleNext == resample \/ normalize \/ normalize_raises

ResampleSpec == ResampleInit /\ [][ResampleNext]_vars

\* ============================================================== claims

\* The concatenation of the frame numbers of a sequence of flush records.
RECURSIVE FlushedIds(_)
FlushedIds(fs) == IF fs = <<>> THEN <<>> ELSE Head(fs).ids \o FlushedIds(Tail(fs))

\* The flushes that have run to completion (the last record is still being
\* transcribed while the thread is blocked in the engine).
CompletedFlushes ==
    IF seg_pc = "transcribing" THEN SubSeq(flushes, 1, Len(flushes) - 1) ELSE flushes

\* The number of leading frames of a buffer that are above the threshold.
RECURSIVE LoudPrefix(_)
LoudPrefix(buf) ==
    IF buf # <<>> /\ IsLoud(Head(buf).peak) THEN 1 + LoudPrefix(Tail(buf)) ELSE 0

\* A buffer of k >= 1 frames above the threshold followed by m >= 1 frames
\* that are not.
IsUtterance(buf) ==
    LET k == LoudPrefix(buf)
    IN /\ k >= 1
       /\ k < Len(buf)
       /\ \A i \in (k + 1)..Len(buf) : ~IsLoud(buf[i].peak)

SegRunning == seg_pc \in {"top", "get", "transcribing"}

C2_SilenceDiscard ==
    \A j \in DOMAIN flushes :
        flushes[j].volume < SILENCE_THRESHOLD =>
            Range(flushes[j].log) \cap
                {"transcribe", "clipboard_copied", "clipboard_error"} = {}

\* ------------------------------------------------------------------ C3
\* C3: when the engine raises during a flush, the error is logged (and
\* nothing is copied), the buffer is cleared, the silence timer is reset to
\* now and the thread is back at the top of its loop, exactly the state a
\* successful flush leaves.
C3_Isolation ==
    [][(seg_pc = "transcribing" /\ Len(flushes') = Len(flushes)
          /\ flushes'[Len(flushes)].log # flushes[Len(flushes)].log)
        => /\ audio_buffer' = <<>>
           /\ last_speech_time' = now
           /\ seg_pc' = "top"
           /\ flushes'[Len(flushes)].log \in
                 {<<"transcribe", "transcription_error">>,
                  <<"transcribe", "no_speech">>,
                  <<"transcribe", "transcription", "clipboard_copied">>,
                  <<"transcribe", "transcription", "clipboard_error">>}]_vars

\* A flush failed in the engine, and a later one was transcribed and copied.
C3_Witness ==
    /\ Len(flushes) = 2
    /\ flushes[1].log = <<"transcribe", "transcription_error">>
    /\ flushes[2].log = <<"transcribe", "transcription", "clipboard_copied">>
    /\ seg_pc = "top"

\* ------------------------------------------------------------------ C4
\* C4: no second or later invocation of cleanup() invokes an operation on a
\* stream handle that has already been closed.
C4_CleanupIdempotent ==
    \A u \in released_use : ~(u[1] = "cleanup" /\ u[2] >= 2)

\* ------------------------------------------------------------------ C5
\* The numbers of the frames delivered while recording_flag was set.
RECURSIVE RecordedIds(_)
RecordedIds(ds) ==
    IF ds = <<>> THEN <<>>
    ELSE (IF Head(ds).rec THEN <<Head(ds).id>> ELSE <<>>) \o RecordedIds(Tail(ds))

\* C5: recording starts disabled, and the frames put on the queue are
\* exactly the frames delivered while recording_flag was set, whatever their
\* amplitude: none delivered while it was clear, all delivered while it was
\* set.
C5_RecordingGate ==
    /\ main_pc = "start" => ~recording_flag
    /\ enqueued = RecordedIds(delivered)

\* A frame was delivered and dropped while recording was paused, and a later
\* frame below the threshold was delivered and enqueued while it was on.
C5_Witness ==
    /\ Len(delivered) = 2
    /\ ~delivered[1].rec
    /\ delivered[2].rec
    /\ audio_queue # <<>>
    /\ audio_queue[1].id = 2
    /\ ~IsLoud(audio_queue[1].peak)

\* ------------------------------------------------------------------ C6
\* C6: once stop_flag is set it stays set; no step clears it.
C6_StopMonotonic == [][stop_flag => stop_flag']_vars

\* stop_flag was set by a device error and is still set when the session
\* has run to its end, recording having been switched on along the way.
C6_Witness ==
    /\ stop_flag
    /\ device_error
    /\ recording_flag
    /\ main_pc = "terminated"

\* ------------------------------------------------------------------ C7
\* C7: whenever the transcription loop has been left, stop_flag is set.
C7_ExitOnlyOnStop == seg_pc = "exited" => stop_flag

\* ------------------------------------------------------------------ C8
\* C8: after a device error in the capture thread the session terminates,
\* without the user entering anything.
C8_DeviceErrorTerminates == device_error ~> (main_pc = "terminated")

\* ------------------------------------------------------------------ C9
\* C9: while the transcription loop runs, the frames enqueued so far are, in
\* order, the frames of the completed flushes, then those of the utterance
\* buffer, then those still on the queue.
C9_FifoConservation ==
    SegRunning =>
        enqueued = FlushedIds(CompletedFlushes) \o frame_ids(audio_buffer)
                       \o frame_ids(audio_queue)

\* A second frame was enqueued while the thread is blocked in the engine
\* with the first.
C9_Witness ==
    /\ seg_pc = "transcribing"
    /\ Len(audio_buffer) = 1
    /\ Len(audio_queue) = 1
    /\ enqueued = <<1, 2>>

\* ----------------------------------------------------------------- C10
\* C10, in the case the claim names (recording paused): once the buffer is
\* non-empty and SILENCE_DURATION has passed since the last loud frame, the
\* loop goes on to flush, unless stop_flag is set, the loop is left, or
\* recording is resumed.
C10_FlushLiveness ==
    (/\ seg_pc \in {"top", "get"}
     /\ ~stop_flag
     /\ ~recording_flag
     /\ audio_queue = <<>>
     /\ audio_buffer # <<>>
     /\ now - last_speech_time >= SILENCE_DURATION)
    ~> (seg_pc \in {"transcribing", "exited"} \/ stop_flag \/ recording_flag)

\* ----------------------------------------------------------------- C11
\* C11: the stream is released only after stop_flag has been set; once the
\* main thread is past its finally block stop_flag is set and cleanup() has
\* run; and when the process has ended no stream is left open or active.
C11_ShutdownProtocol ==
    /\ stream = "closed" => stop_flag
    /\ main_pc \in {"join", "stopped", "exiting", "terminated"} =>
          stop_flag /\ cleanups >= 1
    /\ main_pc = "terminated" => stream \in {"None", "closed"}

\* ----------------------------------------------------------------- C12
\* C12: recording_flag is set exactly when an odd number of empty lines has
\* been read: one empty line flips it, two in a row restore it, from either
\* value, and no other line changes it.
C12_ToggleInvolution == recording_flag = (empty_lines = 1)

\* Recording is off again as at the start, after an even number of empty
\* lines, and a frame was enqueued while it was on in between.
C12_Witness ==
    /\ ~recording_flag
    /\ empty_lines = 0
    /\ enqueued # <<>>
    /\ main_pc = "input"

C14_Original ==
    (res_pc = "normalized" /\ \E i \in DOMAIN audio_data : Abs(audio_data[i]) > 1) =>
        \E j \in DOMAIN resampled_audio.num :
            Abs(resampled_audio.num[j]) = resampled_audio.den

\* C14, amended: the output is the resampled sequence unscaled when no
\* resampled sample exceeds 1.0 in magnitude, which is so for every input
\* whose largest magnitude is at most 1.0; when a resampled sample exceeds
\* 1.0 the output's largest magnitude is exactly 1.0; in both cases every
\* output sample lies in [-1, 1].
C14_Normalization ==
    res_pc = "normalized" =>
        LET raw == interp(audio_data, resampled_length(Len(audio_data)))
            out == resampled_audio
            exceeds == \E j \in DOMAIN raw.num : Abs(raw.num[j]) > raw.den
        IN /\ (\A i \in DOMAIN audio_data : Abs(audio_data[i]) <= 1) => ~exceeds
           /\ ~exceeds => out = raw
           /\ exceeds => /\ out.num = raw.num
                         /\ \E j \in DOMAIN out.num : Abs(out.num[j]) = out.den
           /\ \A j \in DOMAIN out.num : Abs(out.num[j]) <= out.den

\* Two resampled samples, the first at -2.0, have been scaled by one half.
C14_Witness ==
    /\ res_pc = "normalized"
    /\ Len(resampled_audio.num) = 2
    /\ resampled_audio.num[1] = -2
    /\ resampled_audio.den = 2

\* ----------------------------------------------------------------- C15
\* The output of the latest flush contains a clipboard attempt.
ClipboardAttempted(log) ==
    \E i \in DOMAIN log : log[i] \in {"clipboard_copied", "clipboard_error"}

\* C15: whenever the engine returns a text for a flush, a clipboard write is
\* attempted if and only if the stripped text is non-empty; the transcript is
\* printed immediately before the attempt, whether the attempt succeeds or
\* fails; and the step leaves the buffer empty and the loop running.
C15_OutputSink ==
    [][\A text \in Texts, clip \in BOOLEAN :
          transcribe_returns(text, clip) =>
              LET log == flushes'[Len(flushes')].log
              IN /\ ClipboardAttempted(log) <=> Strip(text) # <<>>
                 /\ \A i \in DOMAIN log :
                       log[i] \in {"clipboard_copied", "clipboard_error"} =>
                           i > 1 /\ log[i - 1] = "transcription"
                 /\ (Strip(text) # <<>> /\ ~clip) =>
                       log[Len(log)] = "clipboard_error"
                 /\ audio_buffer' = <<>>
                 /\ seg_pc' = "top"]_vars

\* A clipboard failure has been reported after the transcript was printed;
\* the buffer is empty and the loop is at the top of its next iteration.
C15_Witness ==
    /\ flushes # <<>>
    /\ LET log == flushes[Len(flushes)].log
       IN log = <<"transcribe", "transcription", "clipboard_error">>
    /\ audio_buffer = <<>>
    /\ seg_pc = "top"
    /\ ~stop_flag

\* ----------------------------------------------------------------- C16
\* C16: after stop_flag is set both loops eventually end; a flush that was in
\* progress when stop_flag was set runs to completion, with its outcome
\* delivered and the buffer cleared; and the segmentation loop, once at its
\* loop condition with stop_flag set, starts no further iteration.
C16_CooperativeCancellation ==
    /\ stop_flag ~> \/ seg_pc \in {"idle", "exited"} /\ cap_pc \in {"idle", "done"}
                    \/ ~Alive
    /\ (stop_flag /\ seg_pc = "transcribing") ~>
          /\ seg_pc \in {"top", "exited"}
          /\ audio_buffer = <<>>
          /\ flushes # <<>>
          /\ Len(flushes[Len(flushes)].log) > 1
    /\ [][(stop_flag /\ seg_pc = "top") => seg_pc' \in {"top", "exited"}]_vars

\* The parts of C16 that hold: the loops end, and no iteration starts after
\* the loop condition has seen stop_flag.
C16_LoopsEnd ==
    /\ stop_flag ~> \/ seg_pc \in {"idle", "exited"} /\ cap_pc \in {"idle", "done"}
                    \/ ~Alive
    /\ [][(stop_flag /\ seg_pc = "top") => seg_pc' \in {"top", "exited"}]_vars

\* ----------------------------------------------------------------- C17
\* C17: last_speech_time is the latest of the start of the loop, the latest
\* dequeue of a loud frame and the completion of the previous flush: each of
\* the three sets it to the clock and nothing else changes it.  A flush starts
\* only when the clock is at least SILENCE_DURATION past it, and the flushed
\* buffer is non-empty and ends with the frame just dequeued.
C17_FlushTimingLowerBound ==
    [][LET starts == seg_pc = "init" /\ seg_pc' = "top"
           dequeues == Len(audio_queue') < Len(audio_queue)
           loud == dequeues /\ IsLoud(Head(audio_queue).peak)
           completes == seg_pc = "transcribing" /\ seg_pc' = "top"
           flushing == Len(flushes') > Len(flushes)
       IN /\ (starts \/ loud \/ completes) => last_speech_time' = now
          /\ ~(starts \/ loud \/ completes) => last_speech_time' = last_speech_time
          /\ flushing =>
                /\ dequeues
                /\ now - last_speech_time' >= SILENCE_DURATION
                /\ audio_buffer' # <<>>
                /\ audio_buffer'[Len(audio_buffer')] = Head(audio_queue)
                /\ flushes'[Len(flushes')].ids = frame_ids(audio_buffer')]_vars

\* A flush is in progress on a loud frame followed by a quiet one that was
\* dequeued exactly SILENCE_DURATION after the loud one.
C17_Witness ==
    /\ seg_pc = "transcribing"
    /\ Len(audio_buffer) = 2
    /\ IsLoud(audio_buffer[1].peak)
    /\ ~IsLoud(audio_buffer[2].peak)
    /\ last_speech_time > 0
    /\ now - last_speech_time = SILENCE_DURATION

\* ----------------------------------------------------------------- C18
\* C18: the step that leaves the segmentation loop makes no transcription
\* call, and once the loop has been left it is never re-entered, no frame
\* leaves the queue, the buffer stays as it is, and the record of
\* transcription calls and clipboard writes does not change.
C18_NoFinalFlush ==
    [][/\ (seg_pc # "exited" /\ seg_pc' = "exited") => flushes' = flushes
       /\ seg_pc = "exited" =>
             /\ seg_pc' = "exited"
             /\ flushes' = flushes
             /\ audio_buffer' = audio_buffer
             /\ Len(audio_queue') >= Len(audio_queue)
             /\ SubSeq(audio_queue', 1, Len(audio_queue)) = audio_queue]_vars

\* The loop has seen stop_flag and exited with a frame in the buffer and a
\* frame in the queue, neither of which was handed to the engine.
C18_Witness ==
    /\ seg_pc = "exited"
    /\ stop_flag
    /\ main_pc = "terminated"
    /\ audio_buffer # <<>>
    /\ audio_queue # <<>>
    /\ flushes = <<>>

\* ----------------------------------------------------------------- C19
\* C19: a step that changes recording_flag changes nothing else of the
\* program but the main thread's position: the frame queue, the buffer, the
\* silence timer, stop_flag, the stream, both worker threads and the record
\* of flushes are as before, so a pause neither flushes nor discards a frame.
C19_ToggleFrame ==
    [][recording_flag' # recording_flag =>
          /\ main_pc = "input"
          /\ UNCHANGED <<audio_queue, audio_buffer, last_speech_time, stop_flag>>
          /\ UNCHANGED <<now, stream, seg_pc, cap_pc, deq_at, flushes,
                         delivered, enqueued, cleanups, device_error>>]_vars

\* Recording has been paused with one captured frame in the buffer and
\* another still on the queue, and no flush has happened.
C19_Witness ==
    /\ ~recording_flag
    /\ main_pc = "check"
    /\ ~stop_flag
    /\ Len(audio_buffer) = 1
    /\ Len(audio_queue) = 1
    /\ flushes = <<>>

====
